---- MODULE Spec2Model ----
(***************************************************************************)
(* PIDSi: a velocity-form PID controller (PidController), a first-order-   *)
(* plus-dead-time plant (FirstOrderProcess) and the SimulationEngine that  *)
(* steps both from a periodic timer.                                       *)
(*                                                                         *)
(* Numbers.  The program computes in IEEE doubles.  The model computes in  *)
(* fixed point: process values, setpoints and controller outputs are       *)
(* integers counting 1/Unit of an engineering unit, durations given to the *)
(* program in seconds are milliseconds, the speed multiplier is kept in    *)
(* tenths, and the engine's simulated time is counted in tenths of         *)
(* deltaTime so that deltaTime * speedMultiplier is exact.  A division or  *)
(* a multiplication by a non-integer factor rounds to the nearest model    *)
(* unit (RoundDiv).                                                        *)
(***************************************************************************)
EXTENDS Integers, Sequences, FiniteSets, TLC

\* ---------------------------------------------------------------- bounds

\* handler invocations that execute inner steps, over a whole behaviour
MaxTicks == 2
\* configuration calls (setSetpoint, update*Parameters, ...) per behaviour
MaxCfgOps == 1
\* config.maxDataPoints of the modelled engine (default 3000)
MaxDataPoints == 2
\* exceptions raised inside runSimulationStep, over a whole behaviour
MaxFaults == 1
\* calls of calculate on a plant driven on its own
MaxPlantCalls == 6
\* calls of updateParameters, setInitialOutput and reset on such a plant
MaxPlantOps == 1
\* calls of calculate on a plant whose input is held
MaxHoldCalls == 12
\* changes of value along the inputs given to such a plant
MaxInputChanges == 1
\* calls of calculate on a controller driven on its own
MaxPidCalls == 2
\* calls of setMode, updateParameters and reset on such a controller
MaxPidOps == 2
\* samples of a history given to getPerformanceMetrics
MaxSamples == 21
\* calculate calls on the controllers that differ in algorithm only
MaxAlgorithmCalls == 3

\* ------------------------------------------------------------ resolution

\* model units per engineering unit (50.00 is 5000)
Unit == 10 * 10
\* denominator of the fixed-point value of Math.exp(-deltaTime / timeConstant)
ExpScale == 10 * 1000

\* --------------------------------------------------- configuration values

\* config.deltaTime, in milliseconds
DeltaTimeMs == 1000
\* config.updateInterval, in milliseconds
UpdateInterval == 1000
\* SimulationEngine.setpoint / targetSetpoint field initialisers
DefaultSetpoint == 50 * Unit
\* lower and upper clamp of setSimulationSpeed, in tenths (0.1 and 10)
SpeedMin == 1
SpeedMax == 100
\* PidParameters.setpointMin / setpointMax as the control panel sets them
SetpointMin == 0
SetpointMax == 100 * Unit
\* size of the window of averageError / errorStdDev
RecentWindow == 100
\* getPerformanceMetrics: the least setpoint change that counts as a step
\* (0.05) and the number of samples of its steady-state branch
StepThreshold == Unit \div 20
SteadyWindow == 20

\* null in a field of type number | null; the number v in such a field is <<v>>
NULL == <<>>
\* the value of intervalId when no timer is set; handles are 1, 2, ...
NoTimer == 0
Manual == "Manual"
Auto == "Auto"
BasicPID == "BasicPID"
I_PD == "I-PD"
PI_D == "PI-D"

\* ---------------------------------------------------------------- inputs

SetpointInputs == {40 * Unit, 120 * Unit}
RampRateInputs == {0, 6 * Unit}
\* multipliers in tenths: 0 is below the lower clamp, 20 is 2x
SpeedInputs == {0, 20}
DisturbanceInputs == {10 * Unit}
PidUpdateInputs ==
    { [manualOutput |-> 30 * Unit, outputMin |-> 20 * Unit, outputMax |-> 80 * Unit],
      [outputMin |-> 80 * Unit, outputMax |-> 20 * Unit],
      [mode |-> Auto],
      [kp |-> 2, algorithm |-> I_PD] }
ProcessUpdateInputs ==
    { [deadTime |-> 0], [deadTime |-> 3000], [gain |-> 2],
      [disturbanceLevel |-> 10, noiseLevel |-> 10] }
ModeInputs == {Manual, Auto}
\* constructor arguments
InitPidInputs ==
    { [mode |-> Auto],
      [mode |-> Manual, manualOutput |-> 150 * Unit, setpointMax |-> 90 * Unit] }
InitProcessInputs == { [gain |-> 1] }
\* histories given to getPerformanceMetrics: the setpoint changes by jump after
\* sample k (never when k is 0), the process value follows one sample later
\* and stays lag below the setpoint
JumpInputs == {3, 10 * Unit}
LagInputs == {0, Unit, 3 * Unit}
\* a controller driven on its own: constructor arguments, setpoints and
\* process values given to calculate
PidInitInputs ==
    { [mode |-> Auto],
      [mode |-> Auto, algorithm |-> I_PD, td |-> 1],
      [mode |-> Auto, algorithm |-> I_PD, ti |-> 0],
      [mode |-> Manual] }
PidSetpointInputs == {50 * Unit, 60 * Unit}
ProcessValueInputs == {40 * Unit, 50 * Unit}
\* controllers that differ in algorithm only: the other constructor arguments
GainInputs ==
    { [td |-> 1],
      [kp |-> 5, manualOutput |-> 150 * Unit],
      [kp |-> 2, ti |-> 0, td |-> 1] }
\* a plant driven on its own: constructor arguments, control inputs and
\* arguments of setInitialOutput
PlantInitInputs ==
    { [deadTime |-> 0], [deadTime |-> 1000], [gain |-> 2],
      [deadTime |-> 3000, timeConstant |-> 1000] }
HoldInitInputs ==
    { [timeConstant |-> 1000, deadTime |-> 0],
      [timeConstant |-> 1000, deadTime |-> 2000],
      [timeConstant |-> 1000, deadTime |-> 8000] }
PlantInputs == {0, 80 * Unit}
PlantUpdateInputs == { [deadTime |-> 0], [deadTime |-> 3000], [gain |-> 2] }
InitialOutputInputs == {50 * Unit}
\* what the random sources may yield in one step: d is the value of
\* lowFreq + medFreq + filteredRandom and n the value of (Math.random() - 0.5) * 2,
\* both in 1/Unit
RandomInputs == { [d |-> -70, n |-> -Unit], [d |-> 70, n |-> 99] }

\* --------------------------------------------------------------- numerics

Abs(x) == IF x < 0 THEN -x ELSE x
Sign(x) == IF x > 0 THEN 1 ELSE IF x < 0 THEN -1 ELSE 0
Max2(a, b) == IF a >= b THEN a ELSE b
Min2(a, b) == IF a <= b THEN a ELSE b

\* Math.round(a / b) for b > 0: floor(a/b + 1/2)
RoundDiv(a, b) == (2 * a + b) \div (2 * b)

RECURSIVE ISqrtBetween(_, _, _)
\* the largest r in lo..hi with r * r <= n, given lo * lo <= n
ISqrtBetween(n, lo, hi) ==
    IF lo >= hi THEN lo
    ELSE LET mid == (lo + hi + 1) \div 2 IN
         IF mid * mid <= n THEN ISqrtBetween(n, mid, hi)
         ELSE ISqrtBetween(n, lo, mid - 1)
\* Math.sqrt on the integer grid (46340 is the largest root of a 32-bit int)
ISqrt(n) == ISqrtBetween(n, 0, Min2(n, 46340))

RECURSIVE SumSeq(_)
SumSeq(s) == IF s = <<>> THEN 0 ELSE Head(s) + SumSeq(Tail(s))

\* { ...base, ...upd } of a Partial<> update
Merge(base, upd) ==
    [k \in DOMAIN base |-> IF k \in DOMAIN upd THEN upd[k] ELSE base[k]]

\* new Array(n).fill(v)
Fill(n, v) == [i \in 1..n |-> v]

\* ---------------------------------------------------------- PidController

DefaultPidParameters ==
    [kp |-> 1, ti |-> 10, td |-> 0, outputMin |-> 0, outputMax |-> 100 * Unit,
     algorithm |-> BasicPID, mode |-> Manual, manualOutput |-> 50 * Unit]

\* the setpoint limits the engine reads from the controller parameters
DefaultSetpointLimits ==
    [setpointMin |-> SetpointMin, setpointMax |-> SetpointMax]

\* new PidController(parameters, deltaTime)
NewPidController(parameters) ==
    LET p == Merge(DefaultPidParameters @@ DefaultSetpointLimits, parameters) IN
    [parameters |-> p,
     state |-> [error |-> <<0, 0, 0>>, pv |-> <<0, 0, 0>>,
                output |-> p.manualOutput, integralSum |-> 0,
                lastOutput |-> p.manualOutput],
     firstRun |-> TRUE]

PidUpdateParameters(c, newParameters) ==
    [c EXCEPT !.parameters = Merge(c.parameters, newParameters)]

\* the Manual -> Auto branch of setMode with currentPv defined
PidSetMode(c, mode, currentPv) ==
    LET seeded ==
          IF c.parameters.mode = Manual /\ mode = Auto
          THEN [c EXCEPT !.state.lastOutput = c.parameters.manualOutput,
                         !.state.output = c.parameters.manualOutput,
                         !.state.pv = <<currentPv, currentPv, currentPv>>,
                         !.state.error = <<0, 0, 0>>,
                         !.firstRun = TRUE]
          ELSE c
    IN [seeded EXCEPT !.parameters.mode = mode]

LimitOutput(parameters, output) ==
    IF output > parameters.outputMax THEN parameters.outputMax
    ELSE IF output < parameters.outputMin THEN parameters.outputMin
    ELSE output

\* calculateDeltaOutput() whose I-PD case takes the proportional term on error
CalculateDeltaOutputKicks(parameters, e, pv) ==
    LET kp == parameters.kp
        ti == parameters.ti
        td == parameters.td
        integral == IF ti > 0
                    THEN RoundDiv(kp * e[1] * DeltaTimeMs, ti * 1000)
                    ELSE 0
        derivE == RoundDiv(td * kp * (e[1] - 2 * e[2] + e[3]) * 1000, DeltaTimeMs)
        derivPv == RoundDiv(td * kp * (pv[3] - 2 * pv[2] + pv[1]) * 1000, DeltaTimeMs)
    IN CASE parameters.algorithm = BasicPID ->
              kp * (e[1] - e[2]) + integral + derivE
         [] parameters.algorithm = I_PD ->
              kp * (e[1] - e[2]) + integral + derivPv
         [] parameters.algorithm = PI_D ->
              kp * (e[1] - e[2]) + integral + derivPv
         [] OTHER -> 0

\* e and pv are <<x[n], x[n-1], x[n-2]>>; dt is DeltaTimeMs / 1000, ti and td
\* are whole seconds
CalculateDeltaOutput(parameters, e, pv) ==
    LET kp == parameters.kp
        ti == parameters.ti
        td == parameters.td
        integral == IF ti > 0
                    THEN RoundDiv(kp * e[1] * DeltaTimeMs, ti * 1000)
                    ELSE 0
        derivE == RoundDiv(td * kp * (e[1] - 2 * e[2] + e[3]) * 1000, DeltaTimeMs)
        derivPv == RoundDiv(td * kp * (pv[3] - 2 * pv[2] + pv[1]) * 1000, DeltaTimeMs)
    IN CASE parameters.algorithm = BasicPID ->
              kp * (e[1] - e[2]) + integral + derivE
         [] parameters.algorithm = I_PD ->
              integral + kp * (pv[2] - pv[1]) + derivPv
         [] parameters.algorithm = PI_D ->
              kp * (e[1] - e[2]) + integral + derivPv
         [] OTHER -> 0

\* calculate() that keeps the unlimited output as the base of the next step
PidCalculateWindsUp(c, sp, processValue) ==
    IF c.parameters.mode = Manual
    THEN [c EXCEPT !.state.output = c.parameters.manualOutput]
    ELSE
      LET e == <<sp - processValue, c.state.error[1], c.state.error[2]>>
          pv == <<processValue, c.state.pv[1], c.state.pv[2]>>
          deltaOutput == IF c.firstRun THEN 0
                         ELSE CalculateDeltaOutput(c.parameters, e, pv)
          newOutput == c.state.lastOutput + deltaOutput
          limited == LimitOutput(c.parameters, newOutput)
      IN [c EXCEPT !.state.error = e, !.state.pv = pv,
                   !.state.output = limited, !.state.lastOutput = newOutput,
                   !.firstRun = FALSE]

\* calculate(setpoint, processValue): the controller after the call; the
\* value returned is state.output
PidCalculate(c, sp, processValue) ==
    IF c.parameters.mode = Manual
    THEN [c EXCEPT !.state.output = c.parameters.manualOutput]
    ELSE
      LET e == <<sp - processValue, c.state.error[1], c.state.error[2]>>
          pv == <<processValue, c.state.pv[1], c.state.pv[2]>>
          deltaOutput == IF c.firstRun THEN 0
                         ELSE CalculateDeltaOutput(c.parameters, e, pv)
          newOutput == c.state.lastOutput + deltaOutput
          limited == LimitOutput(c.parameters, newOutput)
      IN [c EXCEPT !.state.error = e, !.state.pv = pv,
                   !.state.output = limited, !.state.lastOutput = limited,
                   !.firstRun = FALSE]

PidReset(c) ==
    [c EXCEPT !.state = [error |-> <<0, 0, 0>>, pv |-> <<0, 0, 0>>,
                         output |-> c.parameters.manualOutput,
                         integralSum |-> 0,
                         lastOutput |-> c.parameters.manualOutput],
              !.firstRun = TRUE]

\* ------------------------------------------------------ FirstOrderProcess

\* timeConstant and deadTime in milliseconds, the two levels in percent
DefaultProcessParameters ==
    [gain |-> 1, timeConstant |-> 10000, deadTime |-> 2000,
     disturbanceLevel |-> 0, noiseLevel |-> 0]

\* Math.max(1, Math.round(deadTime / deltaTime))
DeadTimeSteps(deadTime) == Max2(1, RoundDiv(deadTime, DeltaTimeMs))

RECURSIVE ExpSeries(_, _, _, _)
\* sum of the terms of exp(-dt / tau) from term number k on, scaled by ExpScale
ExpSeries(term, k, dt, tau) ==
    IF term = 0 THEN 0
    ELSE term + ExpSeries(-RoundDiv(Abs(term) * dt, tau * k) * Sign(term), k + 1, dt, tau)

\* Math.exp(-deltaTime / (10 * timeConstant)), scaled by ExpScale
ExpFactorTenfold(timeConstant) == ExpSeries(ExpScale, 1, DeltaTimeMs, 10 * timeConstant)

\* Math.exp(-deltaTime / timeConstant), scaled by ExpScale
ExpFactor(timeConstant) == ExpSeries(ExpScale, 1, DeltaTimeMs, timeConstant)

\* new FirstOrderProcess(parameters, deltaTime)
NewFirstOrderProcess(parameters) ==
    LET p == Merge(DefaultProcessParameters, parameters)
        n == DeadTimeSteps(p.deadTime)
    IN [parameters |-> p,
        deadTimeSteps |-> n,
        time |-> 0,
        state |-> [output |-> 0, internalState |-> 0,
                   inputHistory |-> Fill(n, 0),
                   disturbance |-> 0, noise |-> 0]]

\* updateParameters() that recomputes deadTimeSteps and leaves the delay line
ProcessUpdateParametersKeepsLine(pr, newParameters) ==
    LET p == Merge(pr.parameters, newParameters) IN
    [pr EXCEPT !.parameters = p, !.deadTimeSteps = DeadTimeSteps(p.deadTime)]

\* updateParameters() that extends the delay line with its oldest entry
ProcessUpdateParametersExtendsOldest(pr, newParameters) ==
    LET p == Merge(pr.parameters, newParameters)
        h == pr.state.inputHistory
        newDeadTimeSteps == DeadTimeSteps(p.deadTime)
        resized ==
          IF newDeadTimeSteps > pr.deadTimeSteps
          THEN Fill(newDeadTimeSteps - pr.deadTimeSteps, h[1]) \o h
          ELSE IF newDeadTimeSteps < pr.deadTimeSteps
          THEN SubSeq(h, pr.deadTimeSteps - newDeadTimeSteps + 1, Len(h))
          ELSE h
    IN IF p.deadTime # pr.parameters.deadTime
       THEN [pr EXCEPT !.parameters = p, !.state.inputHistory = resized,
                       !.deadTimeSteps = newDeadTimeSteps]
       ELSE [pr EXCEPT !.parameters = p]

ProcessUpdateParameters(pr, newParameters) ==
    LET p == Merge(pr.parameters, newParameters)
        h == pr.state.inputHistory
        newDeadTimeSteps == DeadTimeSteps(p.deadTime)
        currentInput == IF Len(h) = 0 THEN 0 ELSE h[Len(h)]
        resized ==
          IF newDeadTimeSteps > pr.deadTimeSteps
          THEN Fill(newDeadTimeSteps - pr.deadTimeSteps, currentInput) \o h
          ELSE IF newDeadTimeSteps < pr.deadTimeSteps
          THEN SubSeq(h, pr.deadTimeSteps - newDeadTimeSteps + 1, Len(h))
          ELSE h
    IN IF p.deadTime # pr.parameters.deadTime
       THEN [pr EXCEPT !.parameters = p, !.state.inputHistory = resized,
                       !.deadTimeSteps = newDeadTimeSteps]
       ELSE [pr EXCEPT !.parameters = p]

\* generateDisturbance(): the new state.disturbance; rnd.d stands for the sum
\* lowFreq + medFreq + filteredRandom
GenerateDisturbance(pr, rnd) ==
    IF pr.parameters.disturbanceLevel = 0 THEN 0
    ELSE RoundDiv(pr.parameters.disturbanceLevel * pr.parameters.gain * rnd.d, 100)

\* generateNoise(): the new state.noise for the internal state just computed;
\* rnd.n stands for (Math.random() - 0.5) * 2
GenerateNoise(pr, internalState, rnd) ==
    IF pr.parameters.noiseLevel = 0 THEN 0
    ELSE LET noiseAmplitude == RoundDiv(pr.parameters.noiseLevel * Abs(internalState), 100)
         IN RoundDiv(rnd.n * Max2(noiseAmplitude, Unit \div 100), Unit)

\* calculate(input): the entry that shift() removes from the delay line after
\* the push, NULL when the line is not longer than deadTimeSteps
ShiftedInput(pr, input) ==
    LET pushed == Append(pr.state.inputHistory, input)
    IN IF Len(pushed) > pr.deadTimeSteps THEN <<pushed[1]>> ELSE NULL

\* calculate(input): delayedInput, read at index 0 after the push and the shift
DelayedInput(pr, input) ==
    LET pushed == Append(pr.state.inputHistory, input)
        h == IF Len(pushed) > pr.deadTimeSteps THEN Tail(pushed) ELSE pushed
    IN IF Len(h) = 0 THEN 0 ELSE h[1]

\* calculate(input) that takes the input just pushed as the delayed input
ProcessCalculateUndelayed(pr, input, rnd) ==
    LET pushed == Append(pr.state.inputHistory, input)
        h == IF Len(pushed) > pr.deadTimeSteps THEN Tail(pushed) ELSE pushed
        disturbance == GenerateDisturbance(pr, rnd)
        expFactor == ExpFactor(pr.parameters.timeConstant)
        internalState ==
          RoundDiv(pr.state.internalState * expFactor
                     + pr.parameters.gain * input * (ExpScale - expFactor),
                   ExpScale) + disturbance
        noise == GenerateNoise(pr, internalState, rnd)
    IN [pr EXCEPT !.time = pr.time + DeltaTimeMs,
                  !.state = [output |-> internalState + noise,
                             internalState |-> internalState,
                             inputHistory |-> h,
                             disturbance |-> disturbance,
                             noise |-> noise]]

\* calculate(input): the process after the call; the value returned is
\* state.output
ProcessCalculate(pr, input, rnd) ==
    LET pushed == Append(pr.state.inputHistory, input)
        h == IF Len(pushed) > pr.deadTimeSteps THEN Tail(pushed) ELSE pushed
        delayedInput == DelayedInput(pr, input)
        disturbance == GenerateDisturbance(pr, rnd)
        expFactor == ExpFactor(pr.parameters.timeConstant)
        internalState ==
          RoundDiv(pr.state.internalState * expFactor
                     + pr.parameters.gain * delayedInput * (ExpScale - expFactor),
                   ExpScale) + disturbance
        noise == GenerateNoise(pr, internalState, rnd)
    IN [pr EXCEPT !.time = pr.time + DeltaTimeMs,
                  !.state = [output |-> internalState + noise,
                             internalState |-> internalState,
                             inputHistory |-> h,
                             disturbance |-> disturbance,
                             noise |-> noise]]

\* reset() without the assignment time = 0
ProcessResetKeepsTime(pr) ==
    [pr EXCEPT !.state = [output |-> 0, internalState |-> 0,
                          inputHistory |-> Fill(pr.deadTimeSteps, 0),
                          disturbance |-> 0, noise |-> 0]]

\* reset()
ProcessReset(pr) ==
    [pr EXCEPT !.state = [output |-> 0, internalState |-> 0,
                          inputHistory |-> Fill(pr.deadTimeSteps, 0),
                          disturbance |-> 0, noise |-> 0],
               !.time = 0]

SetInitialOutput(pr, value) ==
    LET steadyStateInput == RoundDiv(value, pr.parameters.gain) IN
    [pr EXCEPT !.state.output = value,
               !.state.internalState = value,
               !.state.inputHistory =
                   Fill(Len(pr.state.inputHistory), steadyStateInput)]

\* ------------------------------------------------------- SimulationEngine

VARIABLES
    engine,       \* the SimulationEngine object with its controller and plant
    host,         \* the host's timers: live interval handles, dispatched tick
    calls,        \* the last onStateChange argument (<<>>: none yet), onError count
    op,           \* the operation that produced the current state
    tickOuts,     \* controller outputs returned by calculate in the last tick
    switchFrom,   \* <<output of the tick right before a Manual -> Auto switch>>
    recorded,     \* every sample appended since the history was last cleared
    ticksDone,    \* handler invocations that executed inner steps
    cfgOps,       \* configuration calls made
    ramp,         \* the last setSetpoint call and the setpoints stepped since
    bench         \* a controller or a plant driven on its own, with its call log

vars == <<engine, host, calls, op, tickOuts, switchFrom, recorded, ticksDone, cfgOps,
          ramp, bench>>

InitialMetrics ==
    [settlingTime |-> NULL, overshoot |-> NULL, steadyStateError |-> NULL,
     riseTime |-> NULL, iae |-> 0, ise |-> 0, itae |-> 0,
     totalVariation |-> 0, maxOutput |-> 0, minOutput |-> 100 * Unit,
     currentError |-> 0, averageError |-> 0, errorStdDev |-> 0]

\* new SimulationEngine(pidParams, processParams, config, callbacks)
NewSimulationEngine(pidParams, processParams) ==
    [pidController |-> NewPidController(pidParams),
     process |-> SetInitialOutput(NewFirstOrderProcess(processParams), DefaultSetpoint),
     isRunning |-> FALSE,
     isPaused |-> FALSE,
     simulationTime |-> 0,
     dataHistory |-> <<>>,
     intervalId |-> NoTimer,
     setpoint |-> DefaultSetpoint,
     targetSetpoint |-> DefaultSetpoint,
     setpointRampRate |-> 0,
     speedMultiplier |-> 10,
     performanceMetrics |-> InitialMetrics,
     lastControllerOutput |-> 0]

\* the engine, the host and the callbacks as one value the methods transform
World == [engine |-> engine, host |-> host, calls |-> calls]

Last(h) == h[Len(h)]

\* the handle setInterval returns: one that names no live timer
NewHandle(h) == CHOOSE t \in 1..(Cardinality(h.timers) + 1) : t \notin h.timers

\* start()
Start(w) ==
    LET e == w.engine
        processValue == e.process.state.output
        initialData ==
          [time |-> 0, setpoint |-> e.setpoint, processValue |-> processValue,
           controllerOutput |-> RoundDiv(processValue, e.process.parameters.gain),
           error |-> e.setpoint - processValue, disturbance |-> 0]
        seeded == IF Len(e.dataHistory) = 0
                  THEN [e EXCEPT !.simulationTime = 0,
                                 !.dataHistory = <<initialData>>]
                  ELSE e
        t == NewHandle(w.host)
    IN IF e.isRunning THEN w
       ELSE [engine |-> [seeded EXCEPT !.isRunning = TRUE, !.isPaused = FALSE,
                                       !.intervalId = t],
             host |-> [w.host EXCEPT !.timers = @ \cup {t}],
             calls |-> [w.calls EXCEPT !.onStateChange = <<TRUE>>]]

\* pause() that does not notify
PauseUnnotified(w) ==
    IF w.engine.isRunning /\ ~w.engine.isPaused
    THEN [w EXCEPT !.engine.isPaused = TRUE]
    ELSE w

\* pause()
Pause(w) ==
    IF w.engine.isRunning /\ ~w.engine.isPaused
    THEN [w EXCEPT !.engine.isPaused = TRUE, !.calls.onStateChange = <<FALSE>>]
    ELSE w

\* resume()
Resume(w) ==
    IF w.engine.isRunning /\ w.engine.isPaused
    THEN [w EXCEPT !.engine.isPaused = FALSE, !.calls.onStateChange = <<TRUE>>]
    ELSE w

\* stop() without clearInterval
StopLeavesTimer(w) ==
    [engine |-> [w.engine EXCEPT !.isRunning = FALSE, !.isPaused = FALSE,
                                 !.intervalId = NoTimer],
     host |-> w.host,
     calls |-> [w.calls EXCEPT !.onStateChange = <<FALSE>>]]

\* stop()
Stop(w) ==
    [engine |-> [w.engine EXCEPT !.isRunning = FALSE, !.isPaused = FALSE,
                                 !.intervalId = NoTimer],
     host |-> IF w.engine.intervalId # NoTimer
              THEN [w.host EXCEPT !.timers = @ \ {w.engine.intervalId}]
              ELSE w.host,
     calls |-> [w.calls EXCEPT !.onStateChange = <<FALSE>>]]

\* reset() without the assignment simulationTime = 0
ResetKeepsTime(w) ==
    LET wasRunning == w.engine.isRunning
        stopped == Stop(w)
        e == stopped.engine
        sp == e.targetSetpoint
        cleared ==
          [e EXCEPT !.dataHistory = <<>>,
                    !.setpoint = sp,
                    !.pidController = PidReset(e.pidController),
                    !.process = SetInitialOutput(ProcessReset(e.process), sp),
                    !.performanceMetrics = InitialMetrics,
                    !.lastControllerOutput = 0]
        after == [stopped EXCEPT !.engine = cleared]
    IN IF wasRunning THEN Start(after) ELSE after

\* reset()
Reset(w) ==
    LET wasRunning == w.engine.isRunning
        stopped == Stop(w)
        e == stopped.engine
        sp == e.targetSetpoint
        cleared ==
          [e EXCEPT !.simulationTime = 0,
                    !.dataHistory = <<>>,
                    !.setpoint = sp,
                    !.pidController = PidReset(e.pidController),
                    !.process = SetInitialOutput(ProcessReset(e.process), sp),
                    !.performanceMetrics = InitialMetrics,
                    !.lastControllerOutput = 0]
        after == [stopped EXCEPT !.engine = cleared]
    IN IF wasRunning THEN Start(after) ELSE after

\* updateSetpoint() without the snap to the target
UpdateSetpointNeverSnaps(e) ==
    IF e.setpointRampRate = 0 \/ e.setpoint = e.targetSetpoint
    THEN [e EXCEPT !.setpoint = e.targetSetpoint]
    ELSE
      LET rampStep == RoundDiv(e.setpointRampRate * DeltaTimeMs * e.speedMultiplier,
                               1000 * 10)
          difference == e.targetSetpoint - e.setpoint
      IN [e EXCEPT !.setpoint = e.setpoint + Sign(difference) * Abs(rampStep)]

\* updateSetpoint(): the engine after one ramp step
UpdateSetpoint(e) ==
    IF e.setpointRampRate = 0 \/ e.setpoint = e.targetSetpoint
    THEN [e EXCEPT !.setpoint = e.targetSetpoint]
    ELSE
      LET rampStep == RoundDiv(e.setpointRampRate * DeltaTimeMs * e.speedMultiplier,
                               1000 * 10)
          difference == e.targetSetpoint - e.setpoint
      IN IF Abs(difference) <= Abs(rampStep)
         THEN [e EXCEPT !.setpoint = e.targetSetpoint]
         ELSE [e EXCEPT !.setpoint = e.setpoint + Sign(difference) * Abs(rampStep)]

\* dataHistory.slice(-n)
LastN(h, n) == IF Len(h) <= n THEN h ELSE SubSeq(h, Len(h) - n + 1, Len(h))

\* updatePerformanceMetrics(dataPoint), called with dataPoint already pushed
UpdatePerformanceMetrics(e, dataPoint) ==
    LET dt == e.speedMultiplier
        absError == Abs(dataPoint.error)
        m == e.performanceMetrics
        outputVariation == Abs(dataPoint.controllerOutput - e.lastControllerOutput)
        recentData == LastN(e.dataHistory, RecentWindow)
        errors == [i \in 1..Len(recentData) |-> recentData[i].error]
        averageError == RoundDiv(SumSeq(errors), Len(errors))
        squares == [i \in 1..Len(errors) |->
                      RoundDiv((errors[i] - averageError) * (errors[i] - averageError), Unit)]
        variance == RoundDiv(SumSeq(squares), Len(errors))
        stats == IF Len(recentData) > 0
                 THEN [m EXCEPT !.averageError = averageError,
                                !.errorStdDev = ISqrt(variance * Unit)]
                 ELSE m
    IN [e EXCEPT
          !.performanceMetrics =
              [stats EXCEPT
                 !.iae = m.iae + absError * dt,
                 !.ise = m.ise + RoundDiv(dataPoint.error * dataPoint.error, Unit) * dt,
                 !.itae = m.itae + absError * dataPoint.time * dt,
                 !.maxOutput = Max2(m.maxOutput, dataPoint.controllerOutput),
                 !.minOutput = Min2(m.minOutput, dataPoint.controllerOutput),
                 !.totalVariation = IF Len(e.dataHistory) > 1
                                    THEN m.totalVariation + outputVariation
                                    ELSE m.totalVariation,
                 !.currentError = dataPoint.error],
          !.lastControllerOutput = dataPoint.controllerOutput]

\* dataHistory.push(dataPoint)
PushData(e, dataPoint) == [e EXCEPT !.dataHistory = Append(e.dataHistory, dataPoint)]

\* the history limit with pop() in place of shift()
LimitHistoryDropsNewest(e) ==
    IF Len(e.dataHistory) > MaxDataPoints
    THEN [e EXCEPT !.dataHistory = SubSeq(e.dataHistory, 1, Len(e.dataHistory) - 1)]
    ELSE e

\* if (dataHistory.length > maxDataPoints) dataHistory.shift()
LimitHistory(e) ==
    IF Len(e.dataHistory) > MaxDataPoints
    THEN [e EXCEPT !.dataHistory = Tail(e.dataHistory)]
    ELSE e

\* simulationTime += deltaTime * speedMultiplier, in tenths of deltaTime
AdvanceTime(e) == [e EXCEPT !.simulationTime = e.simulationTime + e.speedMultiplier]

\* one iteration of the loop of runSimulationStep; r.points collects the
\* samples the loop has pushed
InnerStep(r, rnd) ==
    LET e1 == UpdateSetpoint(r.e)
        processValue == e1.process.state.output
        pid == PidCalculate(e1.pidController, e1.setpoint, processValue)
        controllerOutput == pid.state.output
        proc == ProcessCalculate(e1.process, controllerOutput, rnd)
        newProcessValue == proc.state.output
        dataPoint ==
          [time |-> e1.simulationTime, setpoint |-> e1.setpoint,
           processValue |-> newProcessValue,
           controllerOutput |-> controllerOutput,
           error |-> e1.setpoint - newProcessValue,
           disturbance |-> proc.state.disturbance]
        e2 == [e1 EXCEPT !.pidController = pid, !.process = proc]
        e3 == UpdatePerformanceMetrics(PushData(e2, dataPoint), dataPoint)
    IN [e |-> AdvanceTime(LimitHistory(e3)), points |-> Append(r.points, dataPoint)]

\* Math.max(1, Math.round(updateInterval * speedMultiplier / (deltaTime * 1000)))
StepsPerUpdate(e) ==
    Max2(1, RoundDiv(UpdateInterval * e.speedMultiplier, DeltaTimeMs * 10))

RECURSIVE RunSteps(_, _, _)
RunSteps(r, rnds, i) ==
    IF i > Len(rnds) THEN r ELSE RunSteps(InnerStep(r, rnds[i]), rnds, i + 1)

\* the steps that complete before an exception: all of them when fault is 0,
\* else those before step number fault (Len(rnds) + 1 is onDataUpdate)
CompletedSteps(rnds, fault) ==
    IF fault = 0 THEN rnds ELSE SubSeq(rnds, 1, fault - 1)

\* the end of the try statement with a catch block that reports and does not
\* stop
CaughtKeepsRunning(w, r, fault) ==
    [w |-> IF fault = 0 THEN [w EXCEPT !.engine = r.e]
           ELSE [w EXCEPT !.engine = r.e, !.calls.onError = @ + 1],
     points |-> r.points]

\* the end of the try statement of runSimulationStep, the loop having left r:
\* the catch block runs when an exception was raised (fault is not 0)
Caught(w, r, fault) ==
    [w |-> IF fault = 0 THEN [w EXCEPT !.engine = r.e]
           ELSE Stop([w EXCEPT !.engine = r.e, !.calls.onError = @ + 1]),
     points |-> r.points]

\* runSimulationStep(): rnds[i] is what the random sources yield in step i;
\* fault is 0 or the number of the step at whose start an exception is raised
RunSimulationStep(w, rnds, fault) ==
    Caught(w, RunSteps([e |-> w.engine, points |-> <<>>],
                       CompletedSteps(rnds, fault), 1), fault)

\* the interval callback without its isPaused test
IntervalHandlerIgnoresPause(w, rnds, fault) == RunSimulationStep(w, rnds, fault)

\* the callback start() hands to setInterval
IntervalHandler(w, rnds, fault) ==
    IF ~w.engine.isPaused THEN RunSimulationStep(w, rnds, fault)
    ELSE [w |-> w, points |-> <<>>]

\* setSetpoint(value, rampRate) without the clamp
SetSetpointUnclamped(e, value, rampRate) ==
    LET e1 == [e EXCEPT !.targetSetpoint = value, !.setpointRampRate = rampRate]
        e2 == IF Len(e.dataHistory) = 0
              THEN [e1 EXCEPT !.setpoint = value,
                              !.process = SetInitialOutput(e.process, value)]
              ELSE e1
    IN IF rampRate = 0 THEN [e2 EXCEPT !.setpoint = value] ELSE e2

\* setSetpoint(value, rampRate)
SetSetpoint(e, value, rampRate) ==
    LET pidParams == e.pidController.parameters
        clampedValue == Max2(pidParams.setpointMin, Min2(pidParams.setpointMax, value))
        e1 == [e EXCEPT !.targetSetpoint = clampedValue, !.setpointRampRate = rampRate]
        e2 == IF Len(e.dataHistory) = 0
              THEN [e1 EXCEPT !.setpoint = clampedValue,
                              !.process = SetInitialOutput(e.process, clampedValue)]
              ELSE e1
    IN IF rampRate = 0 THEN [e2 EXCEPT !.setpoint = clampedValue] ELSE e2

\* updatePidParameters(params)
UpdatePidParameters(e, params) ==
    [e EXCEPT !.pidController = PidUpdateParameters(e.pidController, params)]

\* updateProcessParameters(params)
UpdateProcessParameters(e, params) ==
    [e EXCEPT !.process = ProcessUpdateParameters(e.process, params)]

\* setControlMode(mode)
SetControlMode(e, mode) ==
    LET currentPv == IF Len(e.dataHistory) > 0 THEN Last(e.dataHistory).processValue ELSE 0
    IN [e EXCEPT !.pidController = PidSetMode(e.pidController, mode, currentPv)]

\* setSimulationSpeed(multiplier), in tenths
SetSimulationSpeed(e, multiplier) ==
    [e EXCEPT !.speedMultiplier = Max2(SpeedMin, Min2(SpeedMax, multiplier))]

\* applyStepDisturbance(magnitude)
ApplyStepDisturbance(e, magnitude) ==
    [e EXCEPT !.process =
        SetInitialOutput(e.process, e.process.state.internalState + magnitude)]

\* the least and the greatest member of a non-empty set of integers
MinOf(S) == CHOOSE v \in S : \A w \in S : v <= w
MaxOf(S) == CHOOSE v \in S : \A w \in S : w <= v

\* the index at which the slice stepData starts: 0 when no sample differs in
\* setpoint from the sample 5 before it
StepStartIndex(h) ==
    LET found == { i \in 6..Len(h) :
                     Abs(h[i].setpoint - h[i - 5].setpoint) > StepThreshold }
    IN IF found = {} THEN 0 ELSE MaxOf(found) - 5

\* stepMetrics as getPerformanceMetrics has computed it before it returns
StepMetrics(h) ==
    LET none == [settlingTime |-> NULL, overshoot |-> NULL,
                 steadyStateError |-> NULL, riseTime |-> NULL]
        stepData == SubSeq(h, StepStartIndex(h), Len(h))
        finalSetpoint == Last(stepData).setpoint
        initialValue == stepData[1].processValue
        finalValue == Last(stepData).processValue
        stepSize == Abs(finalSetpoint - initialValue)
        up == finalSetpoint > initialValue
        values == { stepData[i].processValue : i \in 1..Len(stepData) }
        overshoot ==
          IF up
          THEN IF MaxOf(values) > finalSetpoint
               THEN RoundDiv((MaxOf(values) - finalSetpoint) * 100 * Unit, stepSize)
               ELSE 0
          ELSE IF MinOf(values) < finalSetpoint
               THEN RoundDiv((finalSetpoint - MinOf(values)) * 100 * Unit, stepSize)
               ELSE 0
        valueRange == finalSetpoint - initialValue
        \* processValue has passed initialValue + tenths / 10 * valueRange
        Passed(i, tenths) ==
          IF up
          THEN 10 * stepData[i].processValue >= 10 * initialValue + tenths * valueRange
          ELSE 10 * stepData[i].processValue <= 10 * initialValue + tenths * valueRange
        ends == { i \in 1..Len(stepData) : Passed(i, 9) }
        starts == { i \in 1..(IF ends = {} THEN Len(stepData) ELSE MinOf(ends)) :
                      Passed(i, 1) }
        riseTime ==
          IF starts # {} /\ ends # {}
          THEN <<stepData[MinOf(ends)].time - stepData[MinOf(starts)].time>>
          ELSE NULL
        outside == { i \in 1..Len(stepData) :
                       50 * Abs(stepData[i].processValue - finalSetpoint) > stepSize }
        settlingTime ==
          IF outside = {} THEN NULL
          ELSE <<Last(stepData).time - stepData[MaxOf(outside)].time>>
        recentData == LastN(h, SteadyWindow)
        recentErrors == [i \in 1..Len(recentData) |-> Abs(recentData[i].error)]
    IN IF Len(h) < 5 THEN none
       ELSE IF StepStartIndex(h) # 0
       THEN IF 10 * stepSize > Unit
            THEN [settlingTime |-> settlingTime,
                  overshoot |-> IF overshoot > 0 THEN <<overshoot>> ELSE NULL,
                  steadyStateError |-> <<Abs(finalSetpoint - finalValue)>>,
                  riseTime |-> riseTime]
            ELSE none
       ELSE IF Len(h) >= SteadyWindow
       THEN IF SumSeq(recentErrors) < 2 * Unit * Len(recentErrors)
            THEN [none EXCEPT !.steadyStateError =
                                 <<Abs(Last(h).setpoint - Last(h).processValue)>>]
            ELSE none
       ELSE none

\* getPerformanceMetrics() returning { ...performanceMetrics, ...stepMetrics }
GetPerformanceMetricsStepLast(e) == StepMetrics(e.dataHistory) @@ e.performanceMetrics

\* getPerformanceMetrics(): { ...stepMetrics, ...performanceMetrics }, where a
\* key of performanceMetrics replaces the same key of stepMetrics
GetPerformanceMetrics(e) == e.performanceMetrics @@ StepMetrics(e.dataHistory)

\* ------------------------------------------------------------- behaviours

\* no setSetpoint call to follow
NoRamp ==
    [live |-> FALSE, value |-> 0, rampRate |-> 0, start |-> 0,
     hadHistory |-> FALSE, setpoints |-> <<>>]

\* no object is driven outside the engine
NoBench == [kind |-> "none"]

\* an engine as constructed, with nothing observed yet
InitEngine(e) ==
    /\ engine = e
    /\ host = [timers |-> {}, inFlight |-> FALSE]
    /\ calls = [onStateChange |-> <<>>, onError |-> 0]
    /\ op = "init"
    /\ tickOuts = <<>>
    /\ switchFrom = <<>>
    /\ recorded = <<>>
    /\ ticksDone = 0
    /\ cfgOps = 0
    /\ ramp = NoRamp

Init ==
    /\ \E pidParams \in InitPidInputs, processParams \in InitProcessInputs :
          InitEngine(NewSimulationEngine(pidParams, processParams))
    /\ bench = NoBench

\* the state after a method that transforms engine, host and callbacks
Becomes(w, name) ==
    /\ engine' = w.engine
    /\ host' = w.host
    /\ calls' = w.calls
    /\ op' = name
    /\ tickOuts' = <<>>
    /\ switchFrom' = <<>>
    /\ UNCHANGED <<ticksDone, cfgOps, bench>>

\* the state after a configuration method, which touches the engine only
Configured(e, name) ==
    /\ cfgOps < MaxCfgOps
    /\ engine' = e
    /\ op' = name
    /\ tickOuts' = <<>>
    /\ cfgOps' = cfgOps + 1
    /\ UNCHANGED <<host, calls, recorded, ticksDone, bench>>

DoStart ==
    LET w == Start(World) IN
    /\ Becomes(w, "start")
    /\ recorded' = IF Len(engine.dataHistory) = 0 THEN w.engine.dataHistory ELSE recorded
    /\ UNCHANGED ramp

DoPause == Becomes(Pause(World), "pause") /\ UNCHANGED <<recorded, ramp>>

DoResume == Becomes(Resume(World), "resume") /\ UNCHANGED <<recorded, ramp>>

DoStop == Becomes(Stop(World), "stop") /\ UNCHANGED <<recorded, ramp>>

DoReset ==
    LET w == Reset(World) IN
    /\ Becomes(w, "reset")
    /\ recorded' = w.engine.dataHistory
    /\ ramp' = NoRamp

\* the random values one step may draw
RandomOutcomes(e) ==
    LET p == e.process.parameters IN
    IF p.disturbanceLevel = 0 /\ p.noiseLevel = 0
    THEN { [d |-> 0, n |-> 0] }
    ELSE RandomInputs

Outputs(points) == [i \in 1..Len(points) |-> points[i].controllerOutput]

\* where an invocation of runSimulationStep may raise an exception: nowhere
\* (0), at the start of one of its steps, or in onDataUpdate after the loop
FaultInputs(w) ==
    IF w.calls.onError < MaxFaults /\ ~w.engine.isPaused
    THEN 0..(StepsPerUpdate(w.engine) + 1)
    ELSE {0}

\* the state after the interval handler has returned r
Handled(r, fault) ==
    /\ engine' = r.w.engine
    /\ host' = r.w.host
    /\ calls' = r.w.calls
    /\ tickOuts' = Outputs(r.points)
    /\ recorded' = recorded \o r.points
    /\ ticksDone' = IF r.points = <<>> /\ fault = 0 THEN ticksDone ELSE ticksDone + 1
    /\ ramp' = IF ramp.live
               THEN [ramp EXCEPT !.setpoints =
                       @ \o [i \in 1..Len(r.points) |-> r.points[i].setpoint]]
               ELSE ramp

\* one invocation of the interval handler, the host being h when it runs and
\* faults the places where an exception may be raised
HandlerRuns(name, h, faults) ==
    /\ engine.isPaused \/ ticksDone < MaxTicks
    /\ \E rnds \in [1..StepsPerUpdate(engine) -> RandomOutcomes(engine)],
          fault \in faults :
         Handled(IntervalHandler([World EXCEPT !.host = h], rnds, fault), fault)
    /\ op' = name
    /\ switchFrom' = IF op = "setControlMode" THEN switchFrom ELSE <<>>
    /\ UNCHANGED <<cfgOps, bench>>

\* a live interval timer fires and its handler runs at once
Tick ==
    /\ host.timers # {}
    /\ HandlerRuns("tick", host, {0})

DoSetSetpoint ==
    \E value \in SetpointInputs, rampRate \in RampRateInputs :
        /\ Configured(SetSetpoint(engine, value, rampRate), "setSetpoint")
        /\ switchFrom' = <<>>
        /\ ramp' = [live |-> TRUE, value |-> value, rampRate |-> rampRate,
                    start |-> engine.setpoint,
                    hadHistory |-> Len(engine.dataHistory) > 0,
                    setpoints |-> <<>>]

DoUpdatePidParameters ==
    \E params \in PidUpdateInputs :
        /\ Configured(UpdatePidParameters(engine, params), "updatePidParameters")
        /\ switchFrom' = <<>>
        /\ UNCHANGED ramp

DoUpdateProcessParameters ==
    \E params \in ProcessUpdateInputs :
        /\ Configured(UpdateProcessParameters(engine, params), "updateProcessParameters")
        /\ switchFrom' = <<>>
        /\ UNCHANGED ramp

DoSetControlMode ==
    \E mode \in ModeInputs :
        /\ Configured(SetControlMode(engine, mode), "setControlMode")
        /\ switchFrom' = IF /\ op = "tick" /\ tickOuts # <<>>
                            /\ engine.pidController.parameters.mode = Manual
                            /\ mode = Auto
                         THEN <<Last(tickOuts)>> ELSE <<>>
        /\ UNCHANGED ramp

DoSetSimulationSpeed ==
    \E multiplier \in SpeedInputs :
        /\ Configured(SetSimulationSpeed(engine, multiplier), "setSimulationSpeed")
        /\ switchFrom' = <<>>
        /\ ramp' = NoRamp

DoApplyStepDisturbance ==
    \E magnitude \in DisturbanceInputs :
        /\ Configured(ApplyStepDisturbance(engine, magnitude), "applyStepDisturbance")
        /\ switchFrom' = <<>>
        /\ UNCHANGED ramp

Next ==
    \/ DoStart
    \/ DoPause
    \/ DoResume
    \/ DoStop
    \/ DoReset
    \/ Tick
    \/ DoSetSetpoint
    \/ DoUpdatePidParameters
    \/ DoUpdateProcessParameters
    \/ DoSetControlMode
    \/ DoSetSimulationSpeed
    \/ DoApplyStepDisturbance

Spec == Init /\ [][Next]_vars

\* A host whose scheduler hands a due tick to the engine in two steps: the
\* timer fires and the invocation is dispatched, then the handler runs; calls
\* on the engine may come between the two.

TimerFires ==
    /\ host.timers # {}
    /\ ~host.inFlight
    /\ host' = [host EXCEPT !.inFlight = TRUE]
    /\ op' = "dispatch"
    /\ tickOuts' = <<>>
    /\ switchFrom' = <<>>
    /\ UNCHANGED <<engine, calls, recorded, ticksDone, cfgOps, ramp, bench>>

DispatchedHandlerRuns ==
    /\ host.inFlight
    /\ HandlerRuns("handler", [host EXCEPT !.inFlight = FALSE], {0})

NextHost ==
    \/ Next
    \/ TimerFires
    \/ DispatchedHandlerRuns

SpecHost == Init /\ [][NextHost]_vars

\* An engine in whose ticks an exception may be raised.

FaultyTick ==
    /\ host.timers # {}
    /\ HandlerRuns("tick", host, FaultInputs(World))

NextFaulty ==
    \/ DoStart
    \/ DoPause
    \/ DoResume
    \/ DoStop
    \/ DoReset
    \/ FaultyTick
    \/ DoSetSimulationSpeed

SpecFaulty == Init /\ [][NextFaulty]_vars

\* A FirstOrderProcess driven on its own, by direct calls of its methods.
\* bench.from is the plant when the log of inputs and outputs was started;
\* bench.fed and bench.shifted log, call by call, the delayed input that went
\* into the recurrence and the entry that left the delay line.

PlantBench(pr, maxCalls, maxOps) ==
    [kind |-> "plant", plant |-> pr, from |-> pr, ins |-> <<>>, outs |-> <<>>,
     fed |-> <<>>, shifted |-> <<>>,
     calls |-> 0, ops |-> 0, maxCalls |-> maxCalls, maxOps |-> maxOps]

\* the engine stands by, as constructed
InitIdleEngine == InitEngine(NewSimulationEngine([mode |-> Manual], [gain |-> 1]))

InitPlant ==
    /\ InitIdleEngine
    /\ \E params \in PlantInitInputs :
          bench = PlantBench(NewFirstOrderProcess(params), MaxPlantCalls, MaxPlantOps)

\* the state after a call on the object on the bench
Benched(b, name) ==
    /\ bench' = b
    /\ op' = name
    /\ UNCHANGED <<engine, host, calls, tickOuts, switchFrom, recorded, ticksDone,
                   cfgOps, ramp>>

\* the number of places where a sequence changes value
Changes(seq) == Cardinality({ i \in 1..(Len(seq) - 1) : seq[i] # seq[i + 1] })

PlantCalculate ==
    /\ bench.calls < bench.maxCalls
    /\ \E input \in PlantInputs, rnd \in RandomOutcomes([process |-> bench.plant]) :
         /\ Changes(Append(bench.ins, input)) <= MaxInputChanges
         /\ LET pr == ProcessCalculate(bench.plant, input, rnd) IN
            Benched([bench EXCEPT !.plant = pr,
                                  !.ins = Append(@, input),
                                  !.outs = Append(@, pr.state.output),
                                  !.fed = Append(@, DelayedInput(bench.plant, input)),
                                  !.shifted = Append(@, ShiftedInput(bench.plant, input)),
                                  !.calls = @ + 1], "calculate")

\* a call other than calculate: the log starts again
PlantCalled(pr, name) ==
    /\ bench.ops < bench.maxOps
    /\ Benched([bench EXCEPT !.plant = pr, !.from = pr, !.ins = <<>>, !.outs = <<>>,
                             !.fed = <<>>, !.shifted = <<>>,
                             !.ops = @ + 1], name)

PlantUpdateParameters ==
    \E params \in PlantUpdateInputs :
        PlantCalled(ProcessUpdateParameters(bench.plant, params), "updateParameters")

PlantSetInitialOutput ==
    \E value \in InitialOutputInputs :
        PlantCalled(SetInitialOutput(bench.plant, value), "setInitialOutput")

PlantReset == PlantCalled(ProcessReset(bench.plant), "reset")

NextPlant ==
    \/ PlantCalculate
    \/ PlantUpdateParameters
    \/ PlantSetInitialOutput
    \/ PlantReset

SpecPlant == InitPlant /\ [][NextPlant]_vars

\* A plant as constructed whose control input is held.

InitHold ==
    /\ InitIdleEngine
    /\ \E params \in HoldInitInputs :
          bench = PlantBench(NewFirstOrderProcess(params), MaxHoldCalls, 0)

SpecHold == InitHold /\ [][PlantCalculate]_vars

\* Two PidControllers constructed alike and driven on their own by the same
\* calls, but for the setpoints given to calculate.  bench.before is
\* controller a before its last calculate; bench.entered tells that a reset
\* or a change of mode from Manual to Auto has not yet been followed by a
\* calculate in Auto, and bench.first that the last calculate was the one
\* that followed.

InitPid ==
    /\ InitIdleEngine
    /\ \E params \in PidInitInputs :
          bench = [kind |-> "pid",
                   a |-> NewPidController(params), b |-> NewPidController(params),
                   before |-> NewPidController(params),
                   entered |-> FALSE, first |-> FALSE, lastPv |-> 0,
                   calls |-> 0, ops |-> 0]

PidCalculateBoth ==
    /\ bench.calls < MaxPidCalls
    /\ \E spA \in PidSetpointInputs, spB \in PidSetpointInputs,
          processValue \in ProcessValueInputs :
         LET auto == bench.a.parameters.mode = Auto IN
         Benched([bench EXCEPT !.a = PidCalculate(@, spA, processValue),
                               !.b = PidCalculate(@, spB, processValue),
                               !.before = bench.a,
                               !.entered = IF auto THEN FALSE ELSE @,
                               !.first = auto /\ bench.entered,
                               !.lastPv = processValue,
                               !.calls = @ + 1], "calculate")

\* a call other than calculate, made on both controllers
PidCalled(a, b, name) ==
    /\ bench.ops < MaxPidOps
    /\ Benched([bench EXCEPT !.a = a, !.b = b,
                             !.entered = \/ @
                                         \/ name = "reset"
                                         \/ /\ bench.a.parameters.mode = Manual
                                            /\ a.parameters.mode = Auto,
                             !.first = FALSE,
                             !.ops = @ + 1], name)

PidCallsSetMode ==
    \E mode \in ModeInputs :
        PidCalled(PidSetMode(bench.a, mode, bench.lastPv),
                  PidSetMode(bench.b, mode, bench.lastPv), "setMode")

PidCallsUpdateParameters ==
    \E params \in PidUpdateInputs :
        PidCalled(PidUpdateParameters(bench.a, params),
                  PidUpdateParameters(bench.b, params), "updateParameters")

PidCallsReset == PidCalled(PidReset(bench.a), PidReset(bench.b), "reset")

NextPid ==
    \/ PidCalculateBoth
    \/ PidCallsSetMode
    \/ PidCallsUpdateParameters
    \/ PidCallsReset

SpecPid == InitPid /\ [][NextPid]_vars

\* Three PidControllers in Auto, constructed alike but for the algorithm and
\* given the same calculate calls.  bench.sps logs the setpoints given,
\* bench.before is the controllers before the last call and bench.saturated
\* counts the latest consecutive calls in which the unlimited output of the
\* BasicPID controller lay outside its limits.

Algorithms == {BasicPID, I_PD, PI_D}

\* newOutput of the calculate that led from controller c0 to controller c
NewOutput(c0, c) ==
    c0.state.lastOutput
      + (IF c0.firstRun THEN 0
         ELSE CalculateDeltaOutput(c.parameters, c.state.error, c.state.pv))

InitAlgorithms ==
    /\ InitIdleEngine
    /\ \E gains \in GainInputs :
         LET c == [alg \in Algorithms |->
                     NewPidController([mode |-> Auto, algorithm |-> alg] @@ gains)]
         IN bench = [kind |-> "algorithms", c |-> c, before |-> c, sps |-> <<>>,
                     saturated |-> 0]

AlgorithmsCalculate ==
    /\ Len(bench.sps) < MaxAlgorithmCalls
    /\ \E sp \in PidSetpointInputs, processValue \in ProcessValueInputs :
         LET c == [alg \in Algorithms |-> PidCalculate(bench.c[alg], sp, processValue)]
             newOutput == NewOutput(bench.c[BasicPID], c[BasicPID])
         IN Benched([bench EXCEPT !.c = c,
                                  !.before = bench.c,
                                  !.sps = Append(@, sp),
                                  !.saturated =
                                     IF LimitOutput(c[BasicPID].parameters, newOutput)
                                          # newOutput
                                     THEN @ + 1 ELSE 0], "calculate")

SpecAlgorithms == InitAlgorithms /\ [][AlgorithmsCalculate]_vars

\* An engine with a recorded history whose metrics are asked for.

\* sample i of the history that jumps by jump after sample k
SampleOf(i, k, jump, lag) ==
    LET sp == DefaultSetpoint + (IF k > 0 /\ i > k THEN jump ELSE 0)
        pv == DefaultSetpoint + (IF k > 0 /\ i > k + 1 THEN jump ELSE 0) - lag
    IN [time |-> (i - 1) * 10, setpoint |-> sp, processValue |-> pv,
        controllerOutput |-> pv, error |-> sp - pv, disturbance |-> 0]

RECURSIVE Recorded(_, _, _)
\* the engine after the loop of runSimulationStep has stored samples i.. of h
Recorded(e, h, i) ==
    IF i > Len(h) THEN e
    ELSE Recorded(AdvanceTime(UpdatePerformanceMetrics(PushData(e, h[i]), h[i])),
                  h, i + 1)

InitMetrics ==
    /\ InitIdleEngine
    /\ \E n \in 1..MaxSamples, k \in 0..MaxSamples, jump \in JumpInputs,
          lag \in LagInputs :
         /\ k < n
         /\ bench =
              [kind |-> "metrics",
               engine |-> Recorded(NewSimulationEngine([mode |-> Auto], [gain |-> 1]),
                                   [i \in 1..n |-> SampleOf(i, k, jump, lag)], 1),
               asked |-> FALSE,
               result |-> InitialMetrics]

AsksMetrics ==
    /\ ~bench.asked
    /\ Benched([bench EXCEPT !.result = GetPerformanceMetrics(bench.engine),
                             !.asked = TRUE], "getPerformanceMetrics")

SpecMetrics == InitMetrics /\ [][AsksMetrics]_vars

\* ----------------------------------------------------------------- claims

Running(e) == e.isRunning /\ ~e.isPaused
Stopped(e) == ~e.isRunning /\ ~e.isPaused
HandlerRan == op \in {"tick", "handler"}

\* C1: every controller output a tick returns and records lies in
\* [outputMin, outputMax] of the controller parameters in force at that tick,
\* in Manual as in Auto.
C1_OutputBounded ==
    HandlerRan =>
        \A i \in 1..Len(tickOuts) :
            /\ engine.pidController.parameters.outputMin <= tickOuts[i]
            /\ tickOuts[i] <= engine.pidController.parameters.outputMax

\* C2: a tick handler that runs while the engine is not running (a tick that
\* was dispatched before stop()) leaves the engine state unchanged.
C2_NoTickAfterStop ==
    [][(op' = "handler" /\ ~engine.isRunning) => engine' = engine]_vars

\* C3: the first controller output after a Manual -> Auto switch equals the
\* controller output of the tick right before the switch.
C3_BumplessTransfer ==
    (op = "tick" /\ switchFrom # <<>> /\ tickOuts # <<>>) =>
        tickOuts[1] = switchFrom[1]

C5_ResetEqualsFresh ==
    (op = "reset" /\ ~engine.isRunning) =>
        LET fresh == NewSimulationEngine(engine.pidController.parameters,
                                         engine.process.parameters)
        IN /\ engine.pidController = fresh.pidController
           /\ engine.process = fresh.process

\* C5 amended: after reset() on a stopped engine the controller is that of a
\* newly constructed engine with the same parameters, and the plant is that
\* of a newly constructed plant with the same parameters seeded by
\* setInitialOutput at the engine's current target setpoint (not at the
\* constructor's setpoint 50).
C5_ResetEqualsFreshAtTarget ==
    (op = "reset" /\ ~engine.isRunning) =>
        /\ engine.pidController = NewPidController(engine.pidController.parameters)
        /\ engine.process =
             SetInitialOutput(NewFirstOrderProcess(engine.process.parameters),
                              engine.targetSetpoint)

C5_Witness ==
    /\ op = "reset"
    /\ ~engine.isRunning
    /\ ticksDone > 0
    /\ engine.targetSetpoint # DefaultSetpoint

\* C6: start() leaves the engine Running with a live timer, called in Stopped
\* or in Paused.
C6_StartRuns ==
    op = "start" =>
        /\ Running(engine)
        /\ engine.intervalId \in host.timers

\* C7: isPaused implies isRunning; only pause() on a running, unpaused engine
\* sets isPaused; resume() outside Paused changes nothing; a tick that fires
\* while Paused leaves history and simulated time unchanged.
C7_PausedOnlyFromRunning ==
    /\ [](engine.isPaused => engine.isRunning)
    /\ [][/\ (~engine.isPaused /\ engine'.isPaused) =>
                (op' = "pause" /\ engine.isRunning)
          /\ (op' = "resume" /\ ~(engine.isRunning /\ engine.isPaused)) =>
                (engine' = engine /\ host' = host /\ calls' = calls)
          /\ (op' = "tick" /\ engine.isPaused) =>
                /\ engine'.dataHistory = engine.dataHistory
                /\ engine'.simulationTime = engine.simulationTime]_vars

C7_Witness ==
    /\ op = "tick"
    /\ engine.isPaused
    /\ engine.isRunning
    /\ ticksDone > 0

\* C8: reset() ends Running exactly when it was called in Running; called in
\* Stopped or in Paused it ends Stopped.
C8_ResetKeepsRunState ==
    [][op' = "reset" =>
         IF Running(engine) THEN Running(engine') ELSE Stopped(engine')]_vars

\* C9: consecutive samples of the history have strictly increasing time.
C9_StrictlyIncreasingTime ==
    \A i \in 1..(Len(engine.dataHistory) - 1) :
        engine.dataHistory[i].time < engine.dataHistory[i + 1].time

\* C10: the history never exceeds maxDataPoints and is always the most recent
\* maxDataPoints samples recorded, in recording order (on overflow the oldest
\* sample, and only it, is dropped).
C10_BoundedHistory ==
    /\ Len(engine.dataHistory) <= MaxDataPoints
    /\ engine.dataHistory = LastN(recorded, MaxDataPoints)

C10_Witness ==
    /\ op = "tick"
    /\ Len(recorded) > MaxDataPoints
    /\ Len(engine.dataHistory) = MaxDataPoints

\* C13: at speed multiplier 1, after setSetpoint(target, rampRate) with
\* rampRate > 0 on an engine that has history, the active setpoint equals the
\* target from inner step ceil(|D| / (rampRate * deltaTime)) on, D being the
\* distance at the call, and before that step it lies between its value at the
\* call and the target without having reached it.
C13_RampCompletion ==
    LET to == engine.targetSetpoint
        perStep == ramp.rampRate * DeltaTimeMs
        need == (Abs(to - ramp.start) * 1000 + perStep - 1) \div perStep
    IN (ramp.live /\ ramp.rampRate > 0 /\ ramp.hadHistory /\ engine.speedMultiplier = 10) =>
         \A i \in 1..Len(ramp.setpoints) :
            IF i >= need
            THEN ramp.setpoints[i] = to
            ELSE /\ ramp.setpoints[i] # to
                 /\ Min2(ramp.start, to) <= ramp.setpoints[i]
                 /\ ramp.setpoints[i] <= Max2(ramp.start, to)

C13_Witness ==
    /\ ramp.live /\ ramp.rampRate > 0 /\ ramp.hadHistory
    /\ engine.speedMultiplier = 10
    /\ Len(ramp.setpoints) = 2
    /\ ramp.setpoints[1] # engine.targetSetpoint
    /\ ramp.setpoints[1] # ramp.start
    /\ ramp.setpoints[2] = engine.targetSetpoint

\* C14: a tick in which an exception is raised invokes the error notification
\* exactly once and returns with the engine Stopped and its timer cancelled;
\* no tick runs on an engine that is not running, and only start() or reset()
\* sets it running again.
C14_StepFailureStops ==
    [][/\ (op' = "tick" /\ calls'.onError # calls.onError) =>
            /\ calls'.onError = calls.onError + 1
            /\ Stopped(engine')
            /\ engine'.intervalId = NoTimer
            /\ host'.timers = {}
       /\ op' = "tick" => engine.isRunning
       /\ (~engine.isRunning /\ engine'.isRunning) => op' \in {"start", "reset"}]_vars

C14_Witness ==
    /\ op = "tick"
    /\ calls.onError = 1
    /\ Stopped(engine)
    /\ Len(tickOuts) = 1
    /\ Len(recorded) > 1

\* C15: a controller parameter update that makes outputMin > outputMax leaves
\* the controller parameters exactly as they were before the call.
C15_InconsistentLimitsRejected ==
    [][op' = "updatePidParameters" =>
         \/ engine'.pidController.parameters = engine.pidController.parameters
         \/ engine'.pidController.parameters.outputMin
               <= engine'.pidController.parameters.outputMax]_vars

C11_DelayLineLength ==
    bench.kind = "plant" =>
        Len(bench.plant.state.inputHistory)
            = Max2(1, RoundDiv(bench.plant.parameters.deadTime, DeltaTimeMs))

C11_Witness ==
    /\ bench.kind = "plant"
    /\ op = "calculate"
    /\ bench.ops > 0
    /\ bench.plant.parameters.timeConstant = 10000
    /\ bench.plant.parameters.deadTime = 3000
    /\ bench.plant.time = bench.calls * DeltaTimeMs
    /\ Len(bench.ins) > 3
    /\ bench.calls > Len(bench.ins)

\* the plant rests at an equilibrium: no disturbance or noise, a delay line
\* of one value u and the output gain * u
AtEquilibrium(pr) ==
    /\ pr.parameters.disturbanceLevel = 0
    /\ pr.parameters.noiseLevel = 0
    /\ pr.state.disturbance = 0
    /\ pr.state.noise = 0
    /\ pr.state.output = pr.state.internalState
    /\ \A i \in 1..Len(pr.state.inputHistory) :
          pr.parameters.gain * pr.state.inputHistory[i] = pr.state.output

\* the call at which the logged control input first leaves the value u (0: none)
StepCall(ins, u) ==
    IF \A i \in 1..Len(ins) : ins[i] = u THEN 0
    ELSE CHOOSE k \in 1..Len(ins) :
            ins[k] # u /\ \A i \in 1..(k - 1) : ins[i] = u

\* C12: with disturbance and noise zero and the plant at equilibrium, a step
\* of the control input at call k first changes the plant output at a call
\* between k + D - 1 and k + D + 1, D = deadTime / deltaTime a whole number
\* (0 included).
C12_DelayWithinOneStep ==
    LET pr0 == bench.from
        u0 == pr0.state.inputHistory[1]
        y0 == pr0.state.output
        D == pr0.parameters.deadTime \div DeltaTimeMs
        k == StepCall(bench.ins, u0)
    IN (/\ bench.kind = "plant"
        /\ AtEquilibrium(pr0)
        /\ pr0.parameters.deadTime % DeltaTimeMs = 0
        /\ k > 0
        /\ \A i \in k..Len(bench.ins) : bench.ins[i] = bench.ins[k]) =>
         /\ \A j \in 1..Len(bench.outs) : j < k + D - 1 => bench.outs[j] = y0
         /\ Len(bench.outs) >= k + D + 1 =>
               \E j \in Max2(1, k + D - 1)..(k + D + 1) : bench.outs[j] # y0

C12_Witness ==
    /\ bench.kind = "plant"
    /\ AtEquilibrium(bench.from)
    /\ bench.from.parameters.deadTime = 3000
    /\ bench.from.state.output = 0
    /\ StepCall(bench.ins, 0) = 2
    /\ Len(bench.outs) = 6
    /\ bench.outs[3] = 0
    /\ bench.outs[4] # 0

\* the plant is as a constructor or reset() leaves it
AtRest(pr) ==
    pr.state = [output |-> 0, internalState |-> 0,
                inputHistory |-> Fill(pr.deadTimeSteps, 0),
                disturbance |-> 0, noise |-> 0]

\* the length of the run of equal values that ends a sequence
HeldFor(ins) ==
    IF ins = <<>> THEN 0
    ELSE Len(ins) - (CHOOSE i \in 0..(Len(ins) - 1) :
                        /\ \A j \in (i + 1)..Len(ins) : ins[j] = Last(ins)
                        /\ i > 0 => ins[i] # Last(ins))

\* |y - gain * u| <= 1% of |gain * u|
WithinOnePercent(y, target) == 100 * Abs(y - target) <= Abs(target)

\* C20 as stated: with disturbance and noise zero, a constant control input u
\* held for at least 10 time constants leaves the plant output within 1% of
\* gain * u.
C20_ConvergesInTenTimeConstants ==
    LET p == bench.plant.parameters IN
    (/\ bench.kind = "plant"
     /\ p.disturbanceLevel = 0 /\ p.noiseLevel = 0
     /\ bench.ins # <<>>
     /\ HeldFor(bench.ins) * DeltaTimeMs >= 10 * p.timeConstant) =>
        WithinOnePercent(bench.plant.state.output, p.gain * Last(bench.ins))

\* C20 amended: with disturbance and noise zero, on a plant at rest (as
\* constructed or reset) a constant control input u held for the N - 1 calls
\* the delay line withholds it plus at least 10 time constants leaves the
\* plant output within 1% of gain * u.
C20_ConvergesPastDeadTime ==
    LET p == bench.plant.parameters IN
    (/\ bench.kind = "plant"
     /\ p.disturbanceLevel = 0 /\ p.noiseLevel = 0
     /\ AtRest(bench.from)
     /\ bench.ins # <<>>
     /\ HeldFor(bench.ins) = Len(bench.ins)
     /\ (Len(bench.ins) - (bench.plant.deadTimeSteps - 1)) * DeltaTimeMs
            >= 10 * p.timeConstant) =>
        WithinOnePercent(bench.plant.state.output, p.gain * Last(bench.ins))

C20_Witness ==
    /\ bench.kind = "plant"
    /\ AtRest(bench.from)
    /\ bench.plant.deadTimeSteps = 2
    /\ HeldFor(bench.ins) = 11
    /\ Last(bench.ins) = 80 * Unit
    /\ bench.outs[1] = 0
    /\ bench.outs[2] > 50 * Unit
    /\ bench.outs[5] < bench.outs[11]

\* C16: the first Auto calculate after a reset of the controller, and after
\* every entry into Auto from Manual (by setMode or by a parameter update that
\* sets mode), uses a delta of 0: its output is the limiter applied to the
\* previous output.
C16_FirstAutoTickHolds ==
    (bench.kind = "pid" /\ op = "calculate" /\ bench.first) =>
        bench.a.state.output
            = LimitOutput(bench.a.parameters, bench.before.state.lastOutput)

\* the delta the last calculate of controller c computed when it was not its
\* first run
DeltaOf(c) == CalculateDeltaOutput(c.parameters, c.state.error, c.state.pv)

\* C17: on a non-first Auto tick of the I-PD algorithm the delta depends on
\* the setpoint only through the current error: two controllers with equal
\* parameters and equal process-value history whose current errors agree
\* compute the same delta whatever their earlier setpoints were, and with
\* Ti = 0 they compute the same delta whatever their setpoints are.
C17_IPDNoSetpointKick ==
    (/\ bench.kind = "pid"
     /\ op = "calculate"
     /\ bench.a.parameters.mode = Auto
     /\ bench.a.parameters.algorithm = I_PD
     /\ ~bench.before.firstRun
     /\ bench.a.state.pv = bench.b.state.pv) =>
        /\ bench.a.state.error[1] = bench.b.state.error[1] =>
              DeltaOf(bench.a) = DeltaOf(bench.b)
        /\ bench.a.parameters.ti = 0 => DeltaOf(bench.a) = DeltaOf(bench.b)

C17_Witness ==
    /\ bench.kind = "pid"
    /\ op = "calculate"
    /\ bench.a.parameters.mode = Auto
    /\ bench.a.parameters.algorithm = I_PD
    /\ bench.a.parameters.ti > 0
    /\ ~bench.before.firstRun
    /\ bench.a.state.error[1] = bench.b.state.error[1]
    /\ bench.a.state.error[2] # bench.b.state.error[2]
    /\ bench.a.state.pv[1] # bench.a.state.pv[2]
    /\ DeltaOf(bench.a) # 0

\* no two samples of the history differ in setpoint by more than the least
\* setpoint change
NoSetpointChange(h) ==
    \A i \in 1..Len(h), j \in 1..Len(h) :
        Abs(h[i].setpoint - h[j].setpoint) <= StepThreshold

C21_DelayedInputIsPopped ==
    bench.kind = "plant" =>
        \A i \in 1..Len(bench.fed) : <<bench.fed[i]>> = bench.shifted[i]

\* C22: when updateParameters changes the dead time after an input was
\* pushed, the delay line afterwards has the new length; grown from a to b it
\* ends with the a entries it had, in order, and every added entry equals the
\* input pushed last; shrunk from a to b it is the last b entries it had.
C22_ResizeKeepsContinuity ==
    [][(bench.kind = "plant" /\ op' = "updateParameters" /\ bench.ins # <<>>) =>
          LET h == bench.plant.state.inputHistory
              resized == bench'.plant.state.inputHistory
              a == Len(h)
              b == Len(resized)
          IN /\ b = Max2(1, RoundDiv(bench'.plant.parameters.deadTime, DeltaTimeMs))
             /\ b > a =>
                   /\ SubSeq(resized, b - a + 1, b) = h
                   /\ \A i \in 1..(b - a) : resized[i] = Last(bench.ins)
             /\ b < a => resized = SubSeq(h, a - b + 1, a)
             /\ b = a => resized = h]_vars

\* a line of two entries <<0, 80>> was grown to three
C22_Witness ==
    /\ bench.kind = "plant"
    /\ op = "updateParameters"
    /\ bench.calls = 2
    /\ bench.plant.parameters.deadTime = 3000
    /\ bench.plant.state.inputHistory = <<80 * Unit, 0, 80 * Unit>>
\* C23: the settling time that getPerformanceMetrics reports for a detected
\* setpoint step is the time from the start of the step data to the last
\* sample whose process value is outside the band of 2% of the step size
\* around the final setpoint.
C23_SettlingTimeFromStepStart ==
    LET h == bench.engine.dataHistory
        stepData == SubSeq(h, StepStartIndex(h), Len(h))
        finalSetpoint == Last(stepData).setpoint
        stepSize == Abs(finalSetpoint - stepData[1].processValue)
        outside == { i \in 1..Len(stepData) :
                       50 * Abs(stepData[i].processValue - finalSetpoint) > stepSize }
    IN (/\ bench.kind = "metrics"
        /\ op = "getPerformanceMetrics"
        /\ Len(h) >= 5
        /\ StepStartIndex(h) # 0
        /\ 10 * stepSize > Unit
        /\ outside # {}) =>
          bench.result.settlingTime
              = <<stepData[MaxOf(outside)].time - stepData[1].time>>
\* C24: when the same setpoint was given to the last three Auto calculate
\* calls, BasicPID, I-PD and PI-D compute the same delta from the same gains
\* and the same history of process values.
C24_AlgorithmsAgreeAtConstantSetpoint ==
    LET n == Len(bench.sps) IN
    (/\ bench.kind = "algorithms"
     /\ n >= 3
     /\ bench.sps[n] = bench.sps[n - 1]
     /\ bench.sps[n] = bench.sps[n - 2]) =>
        \A alg \in Algorithms : DeltaOf(bench.c[alg]) = DeltaOf(bench.c[BasicPID])

\* C29: in Auto with outputMin <= outputMax, after every calculate the stored
\* previous output equals the limited output just returned and lies within
\* [outputMin, outputMax], however long the unlimited output was out of bounds.
C29_NoWindupState ==
    (bench.kind = "algorithms" /\ op = "calculate") =>
        \A alg \in Algorithms :
            LET c == bench.c[alg] IN
            (c.parameters.mode = Auto /\ c.parameters.outputMin <= c.parameters.outputMax) =>
                /\ c.state.lastOutput = c.state.output
                /\ c.state.output
                     = LimitOutput(c.parameters, NewOutput(bench.before[alg], c))
                /\ c.state.lastOutput >= c.parameters.outputMin
                /\ c.state.lastOutput <= c.parameters.outputMax

\* the unlimited output of the BasicPID controller was above outputMax in
\* three calls running
C29_Witness ==
    /\ bench.kind = "algorithms"
    /\ op = "calculate"
    /\ bench.saturated = 3
    /\ NewOutput(bench.before[BasicPID], bench.c[BasicPID])
         > bench.c[BasicPID].parameters.outputMax
    /\ bench.c[BasicPID].state.lastOutput = bench.c[BasicPID].parameters.outputMax
\* C25: totalVariation is the sum of |u(k) - u(k-1)| over the consecutive
\* controller outputs that ticks have recorded since the last reset or the
\* construction; the first of these ticks contributes 0.
C25_TotalVariationOfTickOutputs ==
    LET u == IF recorded = <<>> THEN <<>> ELSE Outputs(Tail(recorded)) IN
    engine.performanceMetrics.totalVariation
        = SumSeq([k \in 1..(Len(u) - 1) |-> Abs(u[k + 1] - u[k])])
\* C26: after n inner steps since the last reset or the construction the
\* simulated time of the engine is n * deltaTime and equals the time the
\* plant has advanced, whatever the speed multiplier.
C26_TimeAdvancesByDeltaTime ==
    LET n == IF recorded = <<>> THEN 0 ELSE Len(recorded) - 1 IN
    /\ engine.simulationTime = 10 * n
    /\ engine.simulationTime * DeltaTimeMs = 10 * engine.process.time
\* C27: after any sequence of start, pause, resume, stop, reset and ticks, a
\* failing tick included, the boolean of the latest run-state notification,
\* if there has been one, equals (isRunning and not isPaused).
C27_LastNotificationIsRunState ==
    calls.onStateChange # <<>> =>
        calls.onStateChange[1] = (engine.isRunning /\ ~engine.isPaused)

\* the engine was started again after a tick had failed
C27_Witness ==
    /\ op = "start"
    /\ calls.onError > 0
    /\ calls.onStateChange = <<TRUE>>
    /\ Running(engine)

\* C28: at most one interval timer is live, and one is live exactly when
\* isRunning is true: it is the one whose handle the engine holds.
C28_OneTimerIffRunning ==
    /\ Cardinality(host.timers) <= 1
    /\ host.timers # {} <=> engine.isRunning
    /\ host.timers = IF engine.intervalId = NoTimer THEN {} ELSE {engine.intervalId}

\* a running engine that has ticked was reset and restarted by reset()
C28_Witness ==
    /\ op = "reset"
    /\ ticksDone > 0
    /\ engine.isRunning
    /\ host.timers = {engine.intervalId}
\* C30: on an engine started from an empty history, with the controller in
\* Auto with consistent output limits, disturbance and noise zero and the
\* plant resting on the setpoint, the controller output of the first tick
\* equals the controllerOutput of the seeded initial sample,
\* processValue / gain.
C30_StartsAtSteadyState ==
    (/\ op = "tick"
     /\ tickOuts # <<>>
     /\ Len(recorded) = 1 + Len(tickOuts)
     /\ recorded[1].error = 0
     /\ engine.pidController.parameters.mode = Auto
     /\ engine.pidController.parameters.outputMin
          <= engine.pidController.parameters.outputMax
     /\ engine.process.parameters.disturbanceLevel = 0
     /\ engine.process.parameters.noiseLevel = 0) =>
        tickOuts[1] = recorded[1].controllerOutput
====
